---- MODULE Spec2Model ----
(***************************************************************************)
(* Model of src/server.py: the GitHub tool server.  One executor,          *)
(* make_github_request, and fifteen tool handlers that call it.            *)
(*                                                                         *)
(* Text is modelled by TLA+ strings and f-strings by \o.  A JSON value is  *)
(* a record (see EmptyDict); a tool invocation is a coroutine that is      *)
(* suspended only at its awaits of make_github_request.                    *)
(***************************************************************************)
EXTENDS Integers, Sequences, FiniteSets, TLC

\* ------------------------------------------------------------------ bounds
\* Longest collection an upstream response carries.
MaxItems == 11
\* Number of tool invocations that may be in flight at the same time.
NumClients == 2

Clients == 1..NumClients

\* ------------------------------------------------------- program constants
GITHUB_API_BASE == "https://api.github.com"
\* data.get("workflow_runs", [])[:10]
RunLimit == 10
SEP == "\n---\n"
FAILED == "GitHub API request failed: "

\* ------------------------------------------------------------ JSON values
\* A key the dict does not have, and JSON null (Python None).
ABSENT == "<absent>"
NULL == "<null>"

\* A decoded JSON value the handlers look at: a dict or a list.
\*   error, message, sha : the value of that top-level key, or ABSENT
\*   name                : the entity's identifying field (full_name, number,
\*                         name or id, whichever the projection reads)
\*   object, objsha      : the "object" key (ABSENT, NULL or "dict") and, when
\*                         it is a dict, its "sha" key
\*   ckey, coll          : the collection-valued key ("items" or
\*                         "workflow_runs") and its elements; for a list, coll
\*                         holds the list's elements
\* Every element of a collection is a dict with only its identifying field,
\* written as that field's value.
EmptyDict ==
  [tag |-> "dict", error |-> ABSENT, message |-> ABSENT, name |-> ABSENT,
   sha |-> ABSENT, object |-> ABSENT, objsha |-> ABSENT, ckey |-> ABSENT,
   coll |-> <<>>]

ListOf(c) == [EmptyDict EXCEPT !.tag = "list", !.coll = c]

Entity(e) == [EmptyDict EXCEPT !.name = e]

ErrorDict(msg) == [EmptyDict EXCEPT !.error = msg]

\* Python truth value of a dict or list: non-empty.
Truthy(d) ==
  IF d.tag = "list" THEN d.coll # <<>>
  ELSE \/ d.error # ABSENT \/ d.message # ABSENT \/ d.name # ABSENT
       \/ d.sha # ABSENT \/ d.object # ABSENT \/ d.ckey # ABSENT

\* Python `key in d`: a key of the dict; for a list, an element equal to the
\* string, and the elements here are dicts.
Has(d, key) ==
  /\ d.tag = "dict"
  /\ IF key \in {"items", "workflow_runs"} THEN d.ckey = key
     ELSE d[key] # ABSENT

\* str() of a value inside an f-string.
Str(v) == IF v = NULL THEN "None" ELSE v

\* d.get(key, default) for a string-valued key of a dict.
Get(d, key, default) == IF d[key] = ABSENT THEN default ELSE d[key]

\* ------------------------------------------------------ upstream outcomes
Entities == {"e1", "e2"}

\* The collections upstream answers with: every length up to MaxItems, the
\* elements alternating between two entities (equal or different).
Colls ==
  { [i \in 1..n |-> IF i % 2 = 1 THEN a ELSE b] :
      n \in 0..MaxItems, a \in Entities, b \in Entities }

\* JSON objects without a collection.
ObjectBodies ==
  { [EmptyDict EXCEPT !.error = e, !.name = n, !.sha = s] :
      e \in {ABSENT, "boom"}, n \in {ABSENT, "17"}, s \in {ABSENT, "abc123"} }
  \cup
  { [EmptyDict EXCEPT !.error = e, !.object = "dict", !.objsha = os] :
      e \in {ABSENT, "boom"}, os \in {ABSENT, NULL, "", "abc123", "def456"} }
  \cup
  { [EmptyDict EXCEPT !.object = NULL],
    [EmptyDict EXCEPT !.message = "Hook already exists"],
    [EmptyDict EXCEPT !.message = "Not Found"] }

CollBodies ==
  { [EmptyDict EXCEPT !.ckey = k, !.coll = c] :
      k \in {"items", "workflow_runs"}, c \in Colls }

ListBodies == { ListOf(c) : c \in Colls }

JsonBodies == (ObjectBodies \ {EmptyDict}) \cup CollBodies \cup ListBodies

\* What the network does with one request.
\*   kind "exc"  : client.request raises exc (an httpx transport error or
\*                 timeout) whose str() is text
\*   kind "http" : a response with this status; content is "empty", "text"
\*                 (not JSON) or "json", and body the decoded JSON
Exc(e, t) ==
  [kind |-> "exc", exc |-> e, text |-> t, status |-> 0, content |-> "empty",
   body |-> EmptyDict]

Http(s, c, b) ==
  [kind |-> "http", exc |-> "", text |-> "", status |-> s, content |-> c,
   body |-> b]

Outcomes ==
  { Exc("ConnectError", "All connection attempts failed"),
    Exc("ReadTimeout", "") }
  \cup { Http(s, "empty", EmptyDict) : s \in {200, 204, 404} }
  \cup { Http(s, "text", EmptyDict) : s \in {200, 404} }
  \cup { Http(200, "json", b) : b \in JsonBodies }
  \cup { Http(s, "json", [EmptyDict EXCEPT !.message = m]) :
           s \in {404, 422}, m \in {"Hook already exists", "Not Found"} }

\* ------------------------------------------------------------- requests
\* json=None: no payload.  json={} is the empty record.
NoJson == [none |-> TRUE]

EmptyJson == [k \in {} |-> ""]

Request(url, method, json) == [url |-> url, method |-> method, json |-> json]

NoRequest == Request("", "", NoJson)

\* ------------------------------------------------------------ the executor
\* str(e) of the HTTPStatusError that response.raise_for_status() raises.
StatusErrorText(req, status) ==
  "Client error '" \o ToString(status) \o "' for url '" \o req.url \o "'"

DecodeErrorText == "Expecting value: line 1 column 1 (char 0)"

Outcome(raised, text, value) ==
  [raised |-> raised, text |-> text, value |-> value]

\* Mutant of TryBody: the text of a status error is the "message" of the
\* response's JSON body, when it has one.
TryBodyUpstreamMessage(req, o) ==
  IF o.kind = "exc" THEN Outcome(o.exc, o.text, EmptyDict)
  ELSE IF ~(o.status >= 200 /\ o.status < 300)
    THEN Outcome("HTTPStatusError",
                 IF o.content = "json" /\ Has(o.body, "message")
                   THEN o.body.message
                   ELSE StatusErrorText(req, o.status),
                 EmptyDict)
  ELSE IF o.content = "empty" THEN Outcome("", "", EmptyDict)
  ELSE IF o.content = "text"
    THEN Outcome("JSONDecodeError", DecodeErrorText, EmptyDict)
  ELSE Outcome("", "", o.body)

\* Mutant of TryBody: no response.raise_for_status().
TryBodyNoStatusCheck(req, o) ==
  IF o.kind = "exc" THEN Outcome(o.exc, o.text, EmptyDict)
  ELSE IF o.content = "empty" THEN Outcome("", "", EmptyDict)
  ELSE IF o.content = "text"
    THEN Outcome("JSONDecodeError", DecodeErrorText, EmptyDict)
  ELSE Outcome("", "", o.body)

\* Mutant of TryBody: response.json() also for an empty body.
TryBodyAlwaysJson(req, o) ==
  IF o.kind = "exc" THEN Outcome(o.exc, o.text, EmptyDict)
  ELSE IF ~(o.status >= 200 /\ o.status < 300)
    THEN Outcome("HTTPStatusError", StatusErrorText(req, o.status), EmptyDict)
  ELSE IF o.content \in {"empty", "text"}
    THEN Outcome("JSONDecodeError", DecodeErrorText, EmptyDict)
  ELSE Outcome("", "", o.body)

\* The body of the try block: client.request, raise_for_status, and
\* `response.json() if response.content else {}`.  It ends by raising (raised
\* names the exception class, text is str(e)) or with a value (raised = "").
TryBody(req, o) ==
  IF o.kind = "exc" THEN Outcome(o.exc, o.text, EmptyDict)
  ELSE IF ~(o.status >= 200 /\ o.status < 300)
    THEN Outcome("HTTPStatusError", StatusErrorText(req, o.status), EmptyDict)
  ELSE IF o.content = "empty" THEN Outcome("", "", EmptyDict)
  ELSE IF o.content = "text"
    THEN Outcome("JSONDecodeError", DecodeErrorText, EmptyDict)
  ELSE Outcome("", "", o.body)

\* Mutant of Caught: `except httpx.HTTPError`.
CaughtHttpErrorOnly(e) ==
  e \in {"ConnectError", "ReadTimeout", "HTTPStatusError"}

\* `except Exception`: every exception class TryBody can raise derives from
\* Exception.
Caught(e) ==
  e \in {"ConnectError", "ReadTimeout", "HTTPStatusError", "JSONDecodeError"}

\* What make_github_request does for its caller: it returns value
\* (escaped = ""), or the exception named by escaped propagates.
Reply(escaped, value) == [escaped |-> escaped, value |-> value]

make_github_request(req, o) ==
  LET b == TryBody(req, o) IN
    IF b.raised = "" THEN Reply("", b.value)
    ELSE IF Caught(b.raised) THEN Reply("", ErrorDict(FAILED \o b.text))
    ELSE Reply(b.raised, EmptyDict)

\* --------------------------------------------------------------- handlers
\* A handler runs from its start (or from the await it is suspended at) to its
\* next await, its return or an exception.
Await(req) == [op |-> "await", req |-> req, text |-> "", exc |-> ""]

Return(text) == [op |-> "return", req |-> NoRequest, text |-> text, exc |-> ""]

Raise(e) == [op |-> "raise", req |-> NoRequest, text |-> "", exc |-> e]

\* sep.join(parts)
RECURSIVE Join(_, _)
Join(sep, parts) ==
  IF parts = <<>> THEN ""
  ELSE IF Len(parts) = 1 THEN parts[1]
  ELSE parts[1] \o sep \o Join(sep, Tail(parts))

\* Mutant of Failed: `if not data`.
FailedIfEmpty(data) == ~Truthy(data)

\* `if not data or "error" in data`
Failed(data) == ~Truthy(data) \/ Has(data, "error")

\* `if data and "error" in data`
FailedIfAny(data) == Truthy(data) /\ Has(data, "error")

\* return f"<prefix>{data.get('error', 'Unknown error')}": a list has no get.
ErrorReturn(prefix, data) ==
  IF data.tag = "list" THEN Raise("AttributeError")
  ELSE Return(prefix \o Str(Get(data, "error", "Unknown error")))

format_repository(repo) ==
  "Name: " \o Str(Get(repo, "name", "Unknown"))
    \o "\nDescription: No description\nStars: 0\nURL: No URL"

format_issue(issue) ==
  "Issue #" \o Str(Get(issue, "name", "Unknown"))
    \o "\nTitle: No title\nState: Unknown\nURL: No URL"

format_pull_request(pr) ==
  "PR #" \o Str(Get(pr, "name", "Unknown"))
    \o "\nTitle: No title\nState: Unknown\nURL: No URL"

format_branch(branch) ==
  "Name: " \o Str(Get(branch, "name", "Unknown"))
    \o "\nSHA: Unknown\nURL: No URL"

format_webhook(webhook) ==
  "ID: " \o Str(Get(webhook, "name", "Unknown"))
    \o "\nType: Unknown\nEvents: \nURL: No URL\nActive: False"

\* The f-string of list_workflow_runs: run.get(k) is None for a missing key.
format_run(run) ==
  "Run #" \o Str(Get(run, "name", NULL))
    \o "\nName: None\nStatus: None\nConclusion: None\nURL: None"

\* return format_x(data), text being format_x(data): a list has no get.
Project(data, text) ==
  IF data.tag = "list" THEN Raise("AttributeError") ELSE Return(text)

\* [format_x(e) for e in data] joined by the separator, texts being the
\* format_x(e).  Iterating a dict yields its keys, and a str has no get.
ProjectAll(data, texts) ==
  IF data.tag = "dict" THEN Raise("AttributeError")
  ELSE Return(Join(SEP, texts))

RepoUrl(a) == GITHUB_API_BASE \o "/repos/" \o a.owner \o "/" \o a.repo

\* The arguments of an invocation: one record for all tools, each tool reading
\* its own parameters (the others keep the values of DefaultArgs).
DefaultArgs ==
  [owner |-> "o", repo |-> "r", query |-> "lang:go", per_page |-> 30,
   page |-> 1, title |-> "t", body |-> "", name |-> "n", description |-> "",
   private |-> FALSE, branch_name |-> "feature", source_branch |-> "main",
   path |-> "README.md", content |-> "hi", message |-> "m",
   branch |-> "main", head |-> "feature", base |-> "main", state |-> "open",
   pull_number |-> 7, commit_title |-> "", url |-> "https://h.example/hook",
   events |-> <<"push">>, webhook_id |-> 42, workflow_id |-> NULL]

search_repositories(a, r) ==
  LET url == GITHUB_API_BASE \o "/search/repositories?q=" \o a.query
               \o "&per_page=" \o ToString(a.per_page)
               \o "&page=" \o ToString(a.page)
  IN IF r = <<>> THEN Await(Request(url, "GET", NoJson))
     ELSE LET data == r[1] IN
       IF ~Truthy(data) \/ ~Has(data, "items")
         THEN Return("Unable to fetch repositories or no repositories found.")
       ELSE IF data.coll = <<>>
         THEN Return("No repositories found for this query.")
       ELSE Return(Join(SEP, [i \in 1..Len(data.coll) |->
                                format_repository(Entity(data.coll[i]))]))

create_issue(a, r) ==
  LET url == RepoUrl(a) \o "/issues"
      payload == [title |-> a.title, body |-> a.body]
  IN IF r = <<>> THEN Await(Request(url, "POST", payload))
     ELSE LET data == r[1] IN
       IF Failed(data) THEN ErrorReturn("Unable to create issue: ", data)
       ELSE Project(data, format_issue(data))

create_repository(a, r) ==
  LET url == GITHUB_API_BASE \o "/user/repos"
      payload == [name |-> a.name, description |-> a.description,
                  private |-> a.private, auto_init |-> TRUE]
  IN IF r = <<>> THEN Await(Request(url, "POST", payload))
     ELSE LET data == r[1] IN
       IF Failed(data) THEN ErrorReturn("Unable to create repository: ", data)
       ELSE Project(data, format_repository(data))

delete_repository(a, r) ==
  LET url == RepoUrl(a)
  IN IF r = <<>> THEN Await(Request(url, "DELETE", NoJson))
     ELSE LET data == r[1] IN
       IF FailedIfAny(data)
         THEN ErrorReturn("Unable to delete repository: ", data)
       ELSE Return("Repository " \o a.owner \o "/" \o a.repo
                     \o " deleted successfully.")

list_branches(a, r) ==
  LET url == RepoUrl(a) \o "/branches"
  IN IF r = <<>> THEN Await(Request(url, "GET", NoJson))
     ELSE LET data == r[1] IN
       IF Failed(data) THEN ErrorReturn("Unable to list branches: ", data)
       ELSE IF ~Truthy(data) THEN Return("No branches found.")
       ELSE ProjectAll(data, [i \in 1..Len(data.coll) |->
                               format_branch(Entity(data.coll[i]))])

\* data.get("object", {}).get("sha"): None has no get.
create_branch(a, r) ==
  LET url == RepoUrl(a) \o "/git/refs/heads/" \o a.source_branch
  IN IF r = <<>> THEN Await(Request(url, "GET", NoJson))
     ELSE LET data == r[1] IN
       IF Failed(data) THEN ErrorReturn("Unable to get source branch: ", data)
       ELSE IF data.tag = "list" \/ data.object = NULL
         THEN Raise("AttributeError")
       ELSE LET sha == IF data.object = ABSENT \/ data.objsha = ABSENT
                         THEN NULL ELSE data.objsha
            IN IF sha \in {NULL, ""}
                 THEN Return("Unable to get source branch SHA.")
               ELSE LET url2 == RepoUrl(a) \o "/git/refs"
                        payload == [ref |-> "refs/heads/" \o a.branch_name,
                                    sha |-> sha]
                    IN IF Len(r) = 1 THEN Await(Request(url2, "POST", payload))
                       ELSE LET data2 == r[2] IN
                         IF Failed(data2)
                           THEN ErrorReturn("Unable to create branch: ", data2)
                         ELSE Return("Branch '" \o a.branch_name
                                       \o "' created successfully from '"
                                       \o a.source_branch \o "'.")

delete_branch(a, r) ==
  LET url == RepoUrl(a) \o "/git/refs/heads/" \o a.branch_name
  IN IF r = <<>> THEN Await(Request(url, "DELETE", NoJson))
     ELSE LET data == r[1] IN
       IF FailedIfAny(data) THEN ErrorReturn("Unable to delete branch: ", data)
       ELSE Return("Branch '" \o a.branch_name \o "' deleted successfully.")

\* base64.b64encode(content.encode()).decode(), for the contents of the model.
B64(content) ==
  CASE content = "" -> ""
    [] content = "hi" -> "aGk="
    [] content = "hello" -> "aGVsbG8="

\* make_github_request(url, params={"ref": branch}): make_github_request has
\* no parameter named params, so the call itself raises TypeError, before any
\* request.  What follows the call is written as the code has it.
create_or_update_file(a, r) ==
  LET url == RepoUrl(a) \o "/contents/" \o a.path
  IN IF r = <<>> THEN Raise("TypeError")
     ELSE LET existing_file == r[1]
              base == [message |-> a.message, content |-> B64(a.content),
                       branch |-> a.branch]
              payload ==
                IF Truthy(existing_file) /\ ~Has(existing_file, "error")
                  THEN [message |-> a.message, content |-> B64(a.content),
                        branch |-> a.branch,
                        sha |-> Get(existing_file, "sha", NULL)]
                  ELSE base
          IN IF Len(r) = 1 THEN Await(Request(url, "PUT", payload))
             ELSE LET data == r[2] IN
               IF Failed(data)
                 THEN ErrorReturn("Unable to create/update file: ", data)
               ELSE Return("File '" \o a.path
                             \o "' created/updated successfully in branch '"
                             \o a.branch \o "'.")

create_pull_request(a, r) ==
  LET url == RepoUrl(a) \o "/pulls"
      payload == [title |-> a.title, head |-> a.head, base |-> a.base,
                  body |-> a.body]
  IN IF r = <<>> THEN Await(Request(url, "POST", payload))
     ELSE LET data == r[1] IN
       IF Failed(data) THEN ErrorReturn("Unable to create pull request: ", data)
       ELSE Project(data, format_pull_request(data))

\* make_github_request(url, params=params): TypeError, as in
\* create_or_update_file.
list_pull_requests(a, r) ==
  IF r = <<>> THEN Raise("TypeError")
  ELSE LET data == r[1] IN
    IF Failed(data) THEN ErrorReturn("Unable to list pull requests: ", data)
    ELSE IF ~Truthy(data)
      THEN Return("No " \o a.state \o " pull requests found.")
    ELSE ProjectAll(data, [i \in 1..Len(data.coll) |->
                               format_pull_request(Entity(data.coll[i]))])

merge_pull_request(a, r) ==
  LET url == RepoUrl(a) \o "/pulls/" \o ToString(a.pull_number) \o "/merge"
      payload == IF a.commit_title # "" THEN [commit_title |-> a.commit_title]
                 ELSE EmptyJson
  IN IF r = <<>> THEN Await(Request(url, "PUT", payload))
     ELSE LET data == r[1] IN
       IF Failed(data) THEN ErrorReturn("Unable to merge pull request: ", data)
       ELSE Return("Pull request #" \o ToString(a.pull_number)
                     \o " merged successfully.")

create_webhook(a, r) ==
  LET api_url == RepoUrl(a) \o "/hooks"
      payload == [config |-> [url |-> a.url, content_type |-> "json"],
                  events |-> a.events, active |-> TRUE]
  IN IF r = <<>> THEN Await(Request(api_url, "POST", payload))
     ELSE LET data == r[1] IN
       IF Failed(data) THEN ErrorReturn("Unable to create webhook: ", data)
       ELSE Project(data, format_webhook(data))

list_webhooks(a, r) ==
  LET url == RepoUrl(a) \o "/hooks"
  IN IF r = <<>> THEN Await(Request(url, "GET", NoJson))
     ELSE LET data == r[1] IN
       IF Failed(data) THEN ErrorReturn("Unable to list webhooks: ", data)
       ELSE IF ~Truthy(data) THEN Return("No webhooks found.")
       ELSE ProjectAll(data, [i \in 1..Len(data.coll) |->
                               format_webhook(Entity(data.coll[i]))])

delete_webhook(a, r) ==
  LET url == RepoUrl(a) \o "/hooks/" \o ToString(a.webhook_id)
  IN IF r = <<>> THEN Await(Request(url, "DELETE", NoJson))
     ELSE LET data == r[1] IN
       IF FailedIfAny(data) THEN ErrorReturn("Unable to delete webhook: ", data)
       ELSE Return("Webhook " \o ToString(a.webhook_id)
                     \o " deleted successfully.")

\* data.get("workflow_runs", []): a list has no get.
list_workflow_runs(a, r) ==
  LET base_url == RepoUrl(a) \o "/actions/runs"
      url == IF a.workflow_id \notin {NULL, ""}
               THEN base_url \o "/" \o a.workflow_id \o "/runs" ELSE base_url
  IN IF r = <<>> THEN Await(Request(url, "GET", NoJson))
     ELSE LET data == r[1] IN
       IF Failed(data) THEN ErrorReturn("Unable to list workflow runs: ", data)
       ELSE IF data.tag = "list" THEN Raise("AttributeError")
       ELSE LET workflow_runs ==
                  IF Has(data, "workflow_runs") THEN data.coll ELSE <<>>
                shown == SubSeq(workflow_runs, 1,
                           IF Len(workflow_runs) < RunLimit
                             THEN Len(workflow_runs) ELSE RunLimit)
            IN IF workflow_runs = <<>> THEN Return("No workflow runs found.")
               ELSE Return(Join(SEP, [i \in 1..Len(shown) |->
                                        format_run(Entity(shown[i]))]))

\* ------------------------------------------------------------ invocations
Tools ==
  {"search_repositories", "create_issue", "create_repository",
   "delete_repository", "list_branches", "create_branch", "delete_branch",
   "create_or_update_file", "create_pull_request", "list_pull_requests",
   "merge_pull_request", "create_webhook", "list_webhooks", "delete_webhook",
   "list_workflow_runs"}

\* The tools that await make_github_request twice.
MultiStep == {"create_branch", "create_or_update_file"}

\* The argument values an invocation of tool h is made with.
ArgsOf(h) ==
  CASE h = "create_branch" ->
         { [DefaultArgs EXCEPT !.source_branch = s] : s \in {"main", "dev"} }
    [] h = "merge_pull_request" ->
         { [DefaultArgs EXCEPT !.commit_title = t] : t \in {"", "Merge it"} }
    [] h = "list_workflow_runs" ->
         { [DefaultArgs EXCEPT !.workflow_id = w] : w \in {NULL, "ci.yml"} }
    [] h = "list_pull_requests" ->
         { [DefaultArgs EXCEPT !.state = st] : st \in {"open", "closed"} }
    [] OTHER -> {DefaultArgs}

\* The mcp.tool() dispatch: tool h with arguments a, resumed with the values r
\* its awaits have returned so far.
Run(h, a, r) ==
  CASE h = "search_repositories" -> search_repositories(a, r)
    [] h = "create_issue" -> create_issue(a, r)
    [] h = "create_repository" -> create_repository(a, r)
    [] h = "delete_repository" -> delete_repository(a, r)
    [] h = "list_branches" -> list_branches(a, r)
    [] h = "create_branch" -> create_branch(a, r)
    [] h = "delete_branch" -> delete_branch(a, r)
    [] h = "create_or_update_file" -> create_or_update_file(a, r)
    [] h = "create_pull_request" -> create_pull_request(a, r)
    [] h = "list_pull_requests" -> list_pull_requests(a, r)
    [] h = "merge_pull_request" -> merge_pull_request(a, r)
    [] h = "create_webhook" -> create_webhook(a, r)
    [] h = "list_webhooks" -> list_webhooks(a, r)
    [] h = "delete_webhook" -> delete_webhook(a, r)
    [] h = "list_workflow_runs" -> list_workflow_runs(a, r)

\* Per invocation (one per client):
\*   pc      "idle", "awaiting" (suspended in make_github_request), "returned"
\*           or "raised"
\*   tool, args   the tool invoked and its arguments
\*   sent    the requests handed to make_github_request, in order
\*   outs    what the network did with each of them
\*   replies what make_github_request did for each of them (Reply)
\*   ret     the string returned, when pc = "returned"
\*   fault   the exception that ended the invocation, when pc = "raised"
VARIABLES pc, tool, args, sent, outs, replies, ret, fault

vars == <<pc, tool, args, sent, outs, replies, ret, fault>>

Init ==
  /\ pc = [i \in Clients |-> "idle"]
  /\ tool = [i \in Clients |-> ""]
  /\ args = [i \in Clients |-> DefaultArgs]
  /\ sent = [i \in Clients |-> <<>>]
  /\ outs = [i \in Clients |-> <<>>]
  /\ replies = [i \in Clients |-> <<>>]
  /\ ret = [i \in Clients |-> ""]
  /\ fault = [i \in Clients |-> ""]

\* Mutant of Awaited: one slot holds the results of every invocation.
AwaitedShared(i, rs) == [k \in 1..Len(rs[1]) |-> rs[1][k].value]

\* The values the awaits of invocation i have returned, rs being the replies
\* of all invocations: the locals (data, existing_file) of its own coroutine.
Awaited(i, rs) == [k \in 1..Len(rs[i]) |-> rs[i][k].value]

\* The handler of invocation i has run to step s.
Advance(i, s) ==
  /\ pc' = [pc EXCEPT ![i] = CASE s.op = "await" -> "awaiting"
                                [] s.op = "return" -> "returned"
                                [] s.op = "raise" -> "raised"]
  /\ sent' = IF s.op = "await" THEN [sent EXCEPT ![i] = Append(@, s.req)]
             ELSE sent
  /\ ret' = [ret EXCEPT ![i] = s.text]
  /\ fault' = [fault EXCEPT ![i] = s.exc]

\* A caller invokes tool h with arguments a: the handler runs to its first
\* await.
Invoke(i, h, a) ==
  /\ pc[i] = "idle"
  /\ tool' = [tool EXCEPT ![i] = h]
  /\ args' = [args EXCEPT ![i] = a]
  /\ Advance(i, Run(h, a, <<>>))
  /\ UNCHANGED <<outs, replies>>

\* The network answers the request invocation i awaits with outcome o:
\* make_github_request finishes and the handler resumes with what it returned,
\* or with the exception that escaped it.
Respond(i, o) ==
  /\ pc[i] = "awaiting"
  /\ LET x == make_github_request(sent[i][Len(sent[i])], o)
         rs == [replies EXCEPT ![i] = Append(@, x)]
     IN /\ outs' = [outs EXCEPT ![i] = Append(@, o)]
        /\ replies' = rs
        /\ IF x.escaped # "" THEN Advance(i, Raise(x.escaped))
           ELSE Advance(i, Run(tool[i], args[i], Awaited(i, rs)))
  /\ UNCHANGED <<tool, args>>

\* One caller that waits for each answer: no other invocation is in flight.
Alone(i) == \A j \in Clients \ {i} : pc[j] = "idle"

Next ==
  \E i \in Clients :
    \/ \E h \in Tools : \E a \in ArgsOf(h) : Alone(i) /\ Invoke(i, h, a)
    \/ \E o \in Outcomes : Respond(i, o)

Spec == Init /\ [][Next]_vars

\* Concurrent callers of the tools that take two steps.
ConcOutcomes ==
  { Exc("ConnectError", "All connection attempts failed"),
    Http(200, "empty", EmptyDict) }
  \cup { Http(200, "json",
                [EmptyDict EXCEPT !.object = "dict", !.objsha = os]) :
           os \in {"abc123", "def456"} }

NextConc ==
  \E i \in Clients :
    \/ \E h \in MultiStep : \E a \in ArgsOf(h) : Invoke(i, h, a)
    \/ \E o \in ConcOutcomes : Respond(i, o)

SpecConc == Init /\ [][NextConc]_vars

\* ------------------------------------------------------------ properties
\* Upstream answered 2xx with an empty body or a JSON body.
UpstreamOk(o) ==
  /\ o.kind = "http"
  /\ o.status >= 200 /\ o.status < 300
  /\ o.content \in {"empty", "json"}

\* The JSON value of a 2xx answer; an empty body is the empty dict.
Decoded(o) == IF o.content = "empty" THEN EmptyDict ELSE o.body

\* The invocation has ended.
Ended(i) == pc[i] \in {"returned", "raised"}

\* The words a tool puts before the failure's message, for its k-th call.
FailurePrefix(h, k) ==
  CASE h = "create_issue" -> "Unable to create issue: "
    [] h = "create_repository" -> "Unable to create repository: "
    [] h = "delete_repository" -> "Unable to delete repository: "
    [] h = "list_branches" -> "Unable to list branches: "
    [] h = "create_branch" /\ k = 1 -> "Unable to get source branch: "
    [] h = "create_branch" /\ k # 1 -> "Unable to create branch: "
    [] h = "delete_branch" -> "Unable to delete branch: "
    [] h = "create_or_update_file" -> "Unable to create/update file: "
    [] h = "create_pull_request" -> "Unable to create pull request: "
    [] h = "list_pull_requests" -> "Unable to list pull requests: "
    [] h = "merge_pull_request" -> "Unable to merge pull request: "
    [] h = "create_webhook" -> "Unable to create webhook: "
    [] h = "list_webhooks" -> "Unable to list webhooks: "
    [] h = "delete_webhook" -> "Unable to delete webhook: "
    [] h = "list_workflow_runs" -> "Unable to list workflow runs: "

\* search_repositories has one fixed message for every failure.
PrefixTools == Tools \ {"search_repositories"}

\* C1: every tool handler is total: whatever the arguments and the upstream
\* outcome, an invocation never ends by raising an exception.
C1_HandlersTotal == \A i \in Clients : pc[i] # "raised"

\* C2: for every request and every upstream outcome make_github_request
\* returns one value to its caller and lets no exception escape: the decoded
\* body (the empty dict for an empty body) after a 2xx answer with an empty or
\* JSON body, and otherwise a dict holding the key "error" and nothing else.
C2_ExecutorTotal ==
  \A i \in Clients : \A k \in 1..Len(replies[i]) :
    LET o == outs[i][k]
        x == replies[i][k]
    IN /\ x.escaped = ""
       /\ UpstreamOk(o) => x.value = Decoded(o)
       /\ ~UpstreamOk(o) =>
            /\ x.value.error # ABSENT
            /\ x.value = ErrorDict(x.value.error)

\* A 2xx answer whose body is not JSON came back as an error dict, and the
\* handler went on with it.
C2_Witness ==
  \E i \in Clients :
    /\ Len(replies[i]) = 1
    /\ outs[i][1] = Http(200, "text", EmptyDict)
    /\ replies[i][1] = Reply("", ErrorDict(FAILED \o DecodeErrorText))
    /\ pc[i] = "returned"

\* C3: create_or_update_file issues a PUT after the GET of the existing file:
\* with the GET's sha when the GET succeeded with one, and with no sha field
\* when the GET failed.
C3_ReadBeforeWrite ==
  \A i \in Clients :
    (tool[i] = "create_or_update_file" /\ Ended(i)) =>
      /\ Len(sent[i]) = 2
      /\ sent[i][1].method = "GET"
      /\ sent[i][2].method = "PUT"
      /\ LET get == outs[i][1]
             json == sent[i][2].json
         IN /\ (UpstreamOk(get) /\ Has(Decoded(get), "sha")) =>
                 ("sha" \in DOMAIN json /\ json.sha = Decoded(get).sha)
            /\ ~UpstreamOk(get) => "sha" \notin DOMAIN json

\* The commit identifier a source-branch answer carries (object.sha), or NULL
\* when there is none to extract.
CommitOf(o) ==
  LET d == Decoded(o) IN
    IF d.tag = "dict" /\ d.object = "dict" /\ d.objsha \notin {ABSENT, NULL, ""}
      THEN d.objsha ELSE NULL

\* C4: in create_branch, when the GET of the source branch succeeds without an
\* extractable commit identifier, the POST is never issued and the handler
\* returns "Unable to get source branch SHA."; a POST that is issued carries
\* the sha of that GET's answer.
C4_ResolveThenCreate ==
  \A i \in Clients :
    (tool[i] = "create_branch" /\ Len(outs[i]) >= 1) =>
      LET get == outs[i][1] IN
        /\ (UpstreamOk(get) /\ CommitOf(get) = NULL) =>
             /\ Len(sent[i]) = 1
             /\ pc[i] = "returned"
             /\ ret[i] = "Unable to get source branch SHA."
        /\ Len(sent[i]) >= 2 =>
             /\ UpstreamOk(get)
             /\ sent[i][2].method = "POST"
             /\ sent[i][2].json.sha = CommitOf(get)

\* The tools that answer with a list of entities.
ListTools ==
  {"search_repositories", "list_branches", "list_pull_requests",
   "list_webhooks", "list_workflow_runs"}

\* The answer is a successful one of the shape tool h lists from: a JSON
\* object with "items" or "workflow_runs", or a JSON list.
ListAnswer(h, o) ==
  /\ UpstreamOk(o) /\ o.content = "json"
  /\ CASE h = "search_repositories" -> Has(o.body, "items")
       [] h = "list_workflow_runs" -> Has(o.body, "workflow_runs")
       [] OTHER -> o.body.tag = "list"

\* The tool's message for an empty collection.
EmptyMessage(h, a) ==
  CASE h = "search_repositories" -> "No repositories found for this query."
    [] h = "list_branches" -> "No branches found."
    [] h = "list_pull_requests" -> "No " \o a.state \o " pull requests found."
    [] h = "list_webhooks" -> "No webhooks found."
    [] h = "list_workflow_runs" -> "No workflow runs found."

\* The tool's projection of one element.
Projection(h, e) ==
  CASE h = "search_repositories" -> format_repository(Entity(e))
    [] h = "list_branches" -> format_branch(Entity(e))
    [] h = "list_pull_requests" -> format_pull_request(Entity(e))
    [] h = "list_webhooks" -> format_webhook(Entity(e))
    [] h = "list_workflow_runs" -> format_run(Entity(e))

\* C5: a list tool answered with a collection of N elements returns, for
\* N > 0, the N projections in upstream order joined by N-1 separators, and
\* for N = 0 its own empty message.
C5_ListRoundTrip ==
  \A i \in Clients :
    (tool[i] \in ListTools /\ Len(outs[i]) = 1
       /\ ListAnswer(tool[i], outs[i][1])) =>
      LET c == outs[i][1].body.coll IN
        /\ pc[i] = "returned"
        /\ ret[i] = IF c = <<>> THEN EmptyMessage(tool[i], args[i])
                    ELSE Join(SEP, [k \in 1..Len(c) |->
                                     Projection(tool[i], c[k])])

\* Upstream answered a status outside 2xx.
Refused(o) == o.kind = "http" /\ ~(o.status >= 200 /\ o.status < 300)

\* Upstream answered a status outside 2xx with a JSON body holding "message".
RefusedWithMessage(o) ==
  /\ Refused(o)
  /\ o.content = "json"
  /\ Has(o.body, "message")

\* C6 as stated: answered a non-2xx status whose JSON body has the message m,
\* the handler returns its prefix followed by exactly m.
C6_UpstreamMessage ==
  \A i \in Clients :
    (tool[i] \in PrefixTools /\ Ended(i) /\ Len(outs[i]) >= 1
       /\ RefusedWithMessage(outs[i][Len(outs[i])])) =>
      /\ pc[i] = "returned"
      /\ ret[i] = FailurePrefix(tool[i], Len(outs[i]))
                    \o outs[i][Len(outs[i])].body.message

\* C6 amended: answered a non-2xx status, whatever its body, the handler
\* returns its prefix followed by "GitHub API request failed: " and the text
\* of the status exception, which names the status and the URL and not the
\* body's message; search_repositories returns its one fixed message.
C6_StatusText ==
  \A i \in Clients :
    (Len(outs[i]) >= 1
       /\ Refused(outs[i][Len(outs[i])])) =>
      LET k == Len(outs[i])
          o == outs[i][k]
      IN /\ pc[i] = "returned"
         /\ ret[i] =
              IF tool[i] = "search_repositories"
                THEN "Unable to fetch repositories or no repositories found."
                ELSE FailurePrefix(tool[i], k) \o FAILED
                       \o StatusErrorText(sent[i][k], o.status)
         /\ (tool[i] \in PrefixTools /\ Has(o.body, "message")) =>
              ret[i] # FailurePrefix(tool[i], k) \o o.body.message

\* create_webhook was answered 422 {"message": "Hook already exists"}.
C6_Witness ==
  \E i \in Clients :
    /\ tool[i] = "create_webhook"
    /\ outs[i] = <<Http(422, "json",
                     [EmptyDict EXCEPT !.message = "Hook already exists"])>>
    /\ pc[i] = "returned"
    /\ ret[i] = "Unable to create webhook: GitHub API request failed: "
                  \o "Client error '422' for url "
                  \o "'https://api.github.com/repos/o/r/hooks'"

\* Upstream answered 2xx with an empty body.
EmptyAnswer(o) ==
  /\ o.kind = "http"
  /\ o.status >= 200 /\ o.status < 300
  /\ o.content = "empty"

\* C7: make_github_request turns a 2xx answer with an empty body into the
\* empty dict, not an error dict and not an exception, and delete_repository
\* answered so returns "Repository <owner>/<repo> deleted successfully.".
C7_EmptyBodyIsSuccess ==
  \A i \in Clients :
    /\ \A k \in 1..Len(replies[i]) :
         EmptyAnswer(outs[i][k]) => replies[i][k] = Reply("", EmptyDict)
    /\ (tool[i] = "delete_repository" /\ Len(outs[i]) = 1
          /\ EmptyAnswer(outs[i][1])) =>
         /\ pc[i] = "returned"
         /\ ret[i] = "Repository " \o args[i].owner \o "/" \o args[i].repo
                       \o " deleted successfully."

\* delete_repository("o", "r") was answered 204 with an empty body.
C7_Witness ==
  \E i \in Clients :
    /\ tool[i] = "delete_repository"
    /\ outs[i] = <<Http(204, "empty", EmptyDict)>>
    /\ replies[i] = <<Reply("", EmptyDict)>>
    /\ pc[i] = "returned"
    /\ ret[i] = "Repository o/r deleted successfully."

\* The description of the exception a failed call ended with.
FailureText(req, o) ==
  IF o.kind = "exc" THEN o.text
  ELSE IF Refused(o) THEN StatusErrorText(req, o.status)
  ELSE DecodeErrorText

\* The kind of failure of the spec's taxonomy.
ErrorKind(o) ==
  IF o.kind = "exc" THEN "TransportError"
  ELSE IF Refused(o) THEN "HttpError"
  ELSE "DecodeError"

\* C8 as stated: the value returned for a failed call tells which kind of
\* failure occurred, and for a non-2xx status carries the numeric status.
C8_KindRetained ==
  \A i \in Clients : \A k \in 1..Len(replies[i]) :
    ~UpstreamOk(outs[i][k]) =>
      LET v == replies[i][k].value IN
        /\ "kind" \in DOMAIN v
        /\ v.kind = ErrorKind(outs[i][k])
        /\ Refused(outs[i][k]) =>
             ("status" \in DOMAIN v /\ v.status = outs[i][k].status)

\* C8 amended: the value returned for a failed call is a dict whose only key
\* is "error", holding "GitHub API request failed: " followed by the text of
\* the exception; the kind of failure and the status are in that text only.
C8_ErrorTextOnly ==
  \A i \in Clients : \A k \in 1..Len(replies[i]) :
    ~UpstreamOk(outs[i][k]) =>
      replies[i][k] =
        Reply("", ErrorDict(FAILED \o FailureText(sent[i][k], outs[i][k])))

\* A timeout whose exception has no text and a 404 both came back as
\* {"error": ...}, told apart by the text alone.
C8_Witness ==
  \E i \in Clients :
    /\ tool[i] = "create_branch"
    /\ Len(replies[i]) = 2
    /\ outs[i][2] = Exc("ReadTimeout", "")
    /\ replies[i][2].value = ErrorDict("GitHub API request failed: ")
    /\ pc[i] = "returned"

\* C9: an invocation starts its second call only after its own first call has
\* completed, and builds the second call's payload from the value of its own
\* first call.
C9_OwnFirstResult ==
  \A i \in Clients :
    /\ Len(sent[i]) <= Len(outs[i]) + 1
    /\ Len(outs[i]) = Len(replies[i])
    /\ Len(sent[i]) >= 2 =>
         /\ tool[i] \in MultiStep
         /\ tool[i] = "create_branch" =>
              /\ sent[i][2].method = "POST"
              /\ sent[i][2].json.sha = replies[i][1].value.objsha
         /\ (tool[i] = "create_or_update_file"
               /\ "sha" \in DOMAIN sent[i][2].json) =>
              sent[i][2].json.sha = replies[i][1].value.sha

\* Two invocations of create_branch are both suspended in their second call,
\* each with the sha of its own first answer.
C9_Witness ==
  \E i \in Clients : \E j \in Clients \ {i} :
    /\ tool[i] = "create_branch" /\ tool[j] = "create_branch"
    /\ pc[i] = "awaiting" /\ pc[j] = "awaiting"
    /\ Len(sent[i]) = 2 /\ Len(sent[j]) = 2
    /\ replies[i][1].value.objsha = "abc123"
    /\ replies[j][1].value.objsha = "def456"
    /\ sent[i][2].json.sha = "abc123"
    /\ sent[j][2].json.sha = "def456"

\* C10: a 2xx JSON object with a top-level "error" field makes every handler
\* that tests `"error" in data` return its failure text with that field's
\* value, although the upstream call succeeded.
C10_ErrorFieldIsFailure ==
  \A i \in Clients :
    (tool[i] \in PrefixTools /\ Len(outs[i]) >= 1
       /\ UpstreamOk(outs[i][Len(outs[i])])
       /\ Has(Decoded(outs[i][Len(outs[i])]), "error")) =>
      /\ pc[i] = "returned"
      /\ ret[i] = FailurePrefix(tool[i], Len(outs[i]))
                    \o outs[i][Len(outs[i])].body.error

\* create_issue was answered 200 {"error": "boom", "number": 17}.
C10_Witness ==
  \E i \in Clients :
    /\ tool[i] = "create_issue"
    /\ outs[i] = <<Http(200, "json",
                     [EmptyDict EXCEPT !.error = "boom", !.name = "17"])>>
    /\ pc[i] = "returned"
    /\ ret[i] = "Unable to create issue: boom"

====
